---- MODULE Spec2Model ----
(***************************************************************************)
(* Model of the release-packaging scripts package_llvm.py (the upload step *)
(* UploadLlvm) and upload_clang.py (Main, BundleAndUpload and the helpers  *)
(* they call), together with the release registry (GitHub releases), the   *)
(* package cache directory and the temporary directories they act on.      *)
(* Every HTTP request, extraction and file-system step of the code is one  *)
(* action; the answer of the remote side is chosen by \E.                  *)
(***************************************************************************)
EXTENDS Integers, Sequences, FiniteSets, TLC

\* Number of successive invocations of a script that are explored.
MaxRuns == 2

\* Largest number of platforms named through --only.
MaxOnly == 2

\* Python's None: as a string among strings, the empty sequence among
\* sequences, 0 among the positions of the release list.
None == "None"
NoValue == << >>
NoUrl == 0

(***************************************************************************)
(* upload_clang.py: the platform table                                     *)
(***************************************************************************)

\* Keys of LLVM_DOWNLOAD_DATA in dictionary (insertion) order.
PlatformOrder ==
  << "win32", "win64", "x86_64-apple-darwin", "x86_64-unknown-linux-gnu",
     "i386-unknown-freebsd11", "amd64-unknown-freebsd11", "aarch64-linux-gnu",
     "armv7a-linux-gnueabihf" >>

Platforms == { PlatformOrder[ k ] : k \in 1..Len( PlatformOrder ) }

\* A files_to_copy item: the text before the replacement field and the
\* format spec of the field ('' when the item has no field).
Item( path, spec ) == [ path |-> path, spec |-> spec ]

LLVM_DOWNLOAD_DATA ==
  [ os \in Platforms |->
      IF os \in { "win32", "win64" }
      THEN [ format |-> "nsis",
             llvm_package |-> "LLVM",
             clangd_package |-> << Item( "bin/clangd.exe", "" ) >>,
             libclang_package |-> << Item( "bin/libclang.dll", "" ),
                                     Item( "lib/libclang.lib", "" ) >> ]
      ELSE IF os = "x86_64-apple-darwin"
      THEN [ format |-> "lzma",
             llvm_package |-> "clang+llvm",
             clangd_package |-> << Item( "bin/clangd", "" ) >>,
             libclang_package |-> << Item( "lib/libclang.dylib", "" ) >> ]
      ELSE [ format |-> "lzma",
             llvm_package |-> "clang+llvm",
             clangd_package |-> << Item( "bin/clangd", "" ) >>,
             libclang_package |-> << Item( "lib/libclang.so", "" ),
                                     Item( "lib/libclang.so.", ".2" ) >> ] ]

\* The loop of BundleAndUpload: for binary in [ 'libclang', 'clangd' ].
Binaries == << "libclang", "clangd" >>

FilesToCopy( os, binary ) ==
  IF binary = "libclang" THEN LLVM_DOWNLOAD_DATA[ os ].libclang_package
                         ELSE LLVM_DOWNLOAD_DATA[ os ].clangd_package

\* A version is the sequence of its characters.
Versions == { << "1", "0", ".", "0", ".", "0" >> }

\* item.format( llvm_version = version ): '{llvm_version:.2}' keeps at most
\* the first two characters of the version string.
FormatItem( item, version ) ==
  IF item.spec = ".2"
  THEN << item.path >> \o SubSeq( version, 1, IF Len( version ) < 2
                                               THEN Len( version ) ELSE 2 )
  ELSE << item.path >>

\* download_data[ package_name ][ 'name' ].format( ... )
ArchiveName( binary, version, os ) == << binary, version, os >>

\* download_data[ 'llvm_package' ].format( ... )
LlvmPackage( os, version ) ==
  << LLVM_DOWNLOAD_DATA[ os ].llvm_package, version, os >>

\* The platforms Main hands to BundleAndUpload, in table order.
Selected( a ) ==
  SelectSeq( PlatformOrder, LAMBDA os : a.only = { } \/ os \in a.only )

\* The relative paths MakeBundle looks up for one package of a platform.
BundleFiles( os, binary, version ) ==
  { FormatItem( FilesToCopy( os, binary )[ k ], version ) :
      k \in 1..Len( FilesToCopy( os, binary ) ) }

\* Everything an upstream package has to hold for both bundles to build.
RequiredFiles( os, version ) ==
  BundleFiles( os, "libclang", version ) \cup
  BundleFiles( os, "clangd", version )

(***************************************************************************)
(* package_llvm.py: naming                                                 *)
(***************************************************************************)

\* args.release_candidate is NoValue (the option is absent) or << N >>.
\* Python truth value of it (None and 0 are false).
Truthy( rc ) == rc # NoValue /\ rc[ 1 ] # 0

GetBundleVersion( a ) ==
  IF Truthy( a.release_candidate )
  THEN << a.version, "-rc", a.release_candidate[ 1 ] >>
  ELSE << a.version >>

\* BUNDLE_NAME.format( ... ) + '.tar.xz', the target being the build host's.
BundleName( a ) ==
  << "clang+llvm", GetBundleVersion( a ), "x86_64-unknown-linux-gnu",
     ".tar.xz" >>

(***************************************************************************)
(* The release registry                                                    *)
(***************************************************************************)

\* A release as the registry lists it; assets in listing order.  A release
\* is addressed (upload_url) by its position in the list, an asset
\* (asset id) by its position in the release.
Release( tag, assets ) == [ tag_name |-> tag, assets |-> assets ]

HasAsset( rels, url, name ) ==
  /\ url \in 1..Len( rels )
  /\ \E k \in 1..Len( rels[ url ].assets ) : rels[ url ].assets[ k ] = name

\* The assets called name, over all releases tagged tag.
AssetsNamed( rels, tag, name ) ==
  UNION { { << r, k >> : k \in { j \in 1..Len( rels[ r ].assets ) :
                                   rels[ r ].assets[ j ] = name } } :
          r \in { q \in 1..Len( rels ) : rels[ q ].tag_name = tag } }

AssetCount( rels, tag, name ) == Cardinality( AssetsNamed( rels, tag, name ) )

ReleaseCount( rels, tag ) ==
  Cardinality( { r \in 1..Len( rels ) : rels[ r ].tag_name = tag } )

\* Registry after asset k of release url is deleted.
DeleteAsset( rels, url, k ) ==
  [ rels EXCEPT ![ url ].assets =
      SubSeq( @, 1, k - 1 ) \o SubSeq( @, k + 1, Len( @ ) ) ]

\* Registry after an asset is attached to release url.
AddAsset( rels, url, name ) ==
  [ rels EXCEPT ![ url ].assets = Append( @, name ) ]

\* Statuses the registry can answer to an asset upload: a name already
\* attached to the release is rejected (422), otherwise the upload is
\* stored (201) or fails (500).
UploadStatuses( rels, url, name ) ==
  IF HasAsset( rels, url, name ) THEN { 422 } ELSE { 201, 500 }

\* Statuses the registry can answer to the deletion of asset k of release
\* url: 204 removes the asset, 500 leaves it; an unknown asset is a 404.
DeleteStatuses( rels, url, k ) ==
  IF url \in 1..Len( rels ) /\ k \in 1..Len( rels[ url ].assets )
  THEN { 204, 500 } ELSE { 404 }

\* Position of the first asset called name, 0 when there is none.
FirstAsset( assets, name ) ==
  IF \E k \in 1..Len( assets ) : assets[ k ] = name
  THEN CHOOSE k \in 1..Len( assets ) :
         /\ assets[ k ] = name
         /\ \A j \in 1..( k - 1 ) : assets[ j ] # name
  ELSE 0

\* upload_url after the loop of UploadBundleToGithub: the url of the last
\* listed release carrying the tag, NoUrl when there is none.
LastTagged( rels, tag ) ==
  IF \E r \in 1..Len( rels ) : rels[ r ].tag_name = tag
  THEN CHOOSE r \in 1..Len( rels ) :
         /\ rels[ r ].tag_name = tag
         /\ \A q \in ( r + 1 )..Len( rels ) : rels[ q ].tag_name # tag
  ELSE NoUrl

(***************************************************************************)
(* Directories                                                             *)
(***************************************************************************)

\* A directory is the sequence of its path components below the system's
\* temporary directory; << run >> is the directory mkdtemp returns in
\* invocation number run.
IsPrefix( d, e ) == Len( d ) <= Len( e ) /\ SubSeq( e, 1, Len( d ) ) = d

\* shutil.rmtree( d )
Rmtree( ds, d ) == { e \in ds : ~IsPrefix( d, e ) }

(***************************************************************************)
(* State                                                                   *)
(***************************************************************************)

VARIABLES
  script,       \* the script that is invoked
  args,         \* its parsed arguments, the same in every invocation
  run,          \* number of the current invocation
  pc,           \* position of the current invocation
  error,        \* the exception that ends the invocation, None if none
  log,          \* requests sent in the current invocation, with answers
  releases,     \* the registry: the release list of the repository
  listing,      \* response.json() of the release listing
  i,            \* position of UploadLlvm's loop over the listing
  upload_url,   \* upload_url of UploadLlvm / UploadBundleToGithub
  dirs,         \* temporary directories that exist
  made,         \* temporary directories created by the current invocation
  cache,        \* state of <from-cache>/<llvm_package>, per platform
  upstream,     \* relative paths held by the published package, per platform
  package_dir,  \* package_dir of BundleAndUpload
  payload,      \* relative paths that exist below package_dir
  hashes,       \* keys of the hashes mapping
  p,            \* position of Main's loop over the selected platforms
  b,            \* position of BundleAndUpload's loop over Binaries
  bundles,      \* entries of the archives written by the current invocation
  previous,     \* the hashes mapping of the invocation before
  posted,       \* the json bodies of the releases the invocation created
  filename,     \* BundleLlvm: the file the walk of install_dir is at
  st_mode,      \* BundleLlvm: permission bits of that file on disk
  old_mode,     \* BundleLlvm: its permission bits before the walk
  tar_file,     \* BundleLlvm: names of the members added to the archive
  bl,           \* BundleLlvm: position in the loop body
  texts,        \* CheckLlvm: the version texts matched for one library
  values,       \* CheckLlvm: versions[ library ], the Version objects
  maximum,      \* CheckLlvm: max( values )
  cl,           \* CheckLlvm: position
  outcomes,     \* Retries: what function does, call by call
  calls,        \* Retries: the outcomes of the calls made so far
  nb_retries,   \* Retries: nb_retries
  sleeps,       \* Retries: for each time.sleep, the call it followed
  slept,        \* Retries: seconds spent in time.sleep
  result,       \* Retries: the value returned or the exception raised
  rt,           \* Retries: position
  archive,      \* source preparation: state of <source>.tar.xz, per source
  source,       \* source preparation: state of the directory <source>
  renamed,      \* source preparation: state of 'clang' and of 'extra'
  tools,        \* source preparation: state of the directories below
                \* <llvm_source>/tools that the sources are moved to
  src,          \* source preparation: the source DownloadSource works on
  present       \* source preparation: archives found when the run began

\* State of the functions that are modelled on their own.
blVars == << filename, st_mode, old_mode, tar_file, bl >>
clVars == << texts, values, maximum, cl >>
rtVars == << outcomes, calls, nb_retries, sleeps, slept, result, rt >>
prVars == << archive, source, renamed, tools, src, present >>
auxVars == << blVars, clVars, rtVars, prVars >>

\* A function that is not running.
BlIdle ==
  /\ filename = << >>
  /\ st_mode = 0
  /\ old_mode = 0
  /\ tar_file = << >>
  /\ bl = "idle"

ClIdle ==
  /\ texts = << >>
  /\ values = << >>
  /\ maximum = << >>
  /\ cl = "idle"

RtIdle ==
  /\ outcomes = << >>
  /\ calls = << >>
  /\ nb_retries = 0
  /\ sleeps = << >>
  /\ slept = 0
  /\ result = None
  /\ rt = "idle"

PrIdle ==
  /\ archive = << >>
  /\ source = << >>
  /\ renamed = << >>
  /\ tools = << >>
  /\ src = None
  /\ present = { }

AuxIdle == BlIdle /\ ClIdle /\ RtIdle /\ PrIdle

vars == << script, args, run, pc, error, log, releases, listing, i,
           upload_url, dirs, made, cache, upstream, package_dir, payload,
           hashes, p, b, bundles, previous, auxVars >>

plVars == << listing, i >>
ucVars == << dirs, made, cache, upstream, package_dir, payload, hashes,
            p, b >>
outVars == << bundles, previous, posted >>
mainVars == << script, args, run, pc, error, log, releases, listing, i,
               upload_url, dirs, made, cache, upstream, package_dir, payload,
               hashes, p, b, bundles, previous, posted >>

Req( op, name, st ) == [ op |-> op, name |-> name, st |-> st ]

Last( s ) == s[ Len( s ) ]

(***************************************************************************)
(* Initial states                                                          *)
(***************************************************************************)

Scripts == { "package_llvm", "upload_clang" }

\* Platforms that --only is drawn from: one per archive format and per
\* shape of files_to_copy.
OnlyPlatforms == { "win32", "x86_64-apple-darwin", "x86_64-unknown-linux-gnu" }

OnlyChoices ==
  { S \in SUBSET OnlyPlatforms : Cardinality( S ) \in 1..MaxOnly }

ArgsOf( s ) ==
  IF s = "package_llvm"
  THEN [ version : Versions, release_candidate : { NoValue, << 0 >>, << 1 >> } ]
  ELSE [ version : Versions,
         from_cache : { None, "cache" },
         no_upload : BOOLEAN,
         keep_temp : BOOLEAN,
         only : OnlyChoices ]

\* The tag of a release of another version, and an asset of another name.
OtherTag == << << "9" >> >>
OtherAsset( a ) ==
  << "release-notes", GetBundleVersion( a ), "any", ".txt" >>

\* Registry contents an invocation can find.
InitRegistries( s, a ) ==
  IF s = "package_llvm"
  THEN { << >>,
         << Release( OtherTag, << BundleName( a ) >> ) >>,
         << Release( OtherTag, << >> ),
            Release( GetBundleVersion( a ), << >> ) >>,
         << Release( GetBundleVersion( a ),
                     << OtherAsset( a ), BundleName( a ) >> ) >> }
  ELSE { << Release( OtherTag, << >> ) >>,
         << Release( OtherTag, << >> ), Release( << a.version >>, << >> ) >> }

\* Cache directories an invocation can find: each package of a selected
\* platform is there or not.
InitCaches( s, a ) ==
  IF s = "upload_clang" /\ a.from_cache # None
  THEN { c \in [ Platforms -> { "absent", "complete" } ] :
           \A os \in Platforms : os \notin a.only => c[ os ] = "absent" }
  ELSE { [ os \in Platforms |-> "absent" ] }

\* The files a package can lack: none, or one of those the table lists.
MissingChoices( os, version ) ==
  { { } } \cup { { f } : f \in RequiredFiles( os, version ) }

\* Published packages an invocation can find: the package of a platform
\* that is not selected is never looked at.
InitUpstreams( s, a ) ==
  IF s = "upload_clang"
  THEN { [ os \in Platforms |->
           IF os \in a.only THEN RequiredFiles( os, a.version ) \ m[ os ]
                            ELSE RequiredFiles( os, a.version ) ] :
         m \in { n \in [ a.only -> UNION { MissingChoices( os, a.version ) :
                                            os \in a.only } ] :
                   \A os \in a.only :
                     n[ os ] \in MissingChoices( os, a.version ) } }
  ELSE { [ os \in Platforms |-> RequiredFiles( os, a.version ) ] }

\* hashlib.sha256( f.read() ).hexdigest(): a digest stands for the bytes
\* it was computed from.
Sha256( bytes ) == << "sha256", bytes >>

\* The archives an invocation can write, none of them written yet.
ArchiveNames( version ) ==
  { ArchiveName( bin, version, os ) :
      bin \in { "libclang", "clangd" }, os \in Platforms }

NoBundles ==
  [ n \in UNION { ArchiveNames( v ) : v \in Versions } |-> << >> ]

Entry( s ) == IF s = "package_llvm" THEN "UploadLlvm" ELSE "Main"

Init ==
  \E s \in Scripts : \E a \in ArgsOf( s ) :
  \E rels \in InitRegistries( s, a ) : \E c \in InitCaches( s, a ) :
  \E u \in InitUpstreams( s, a ) :
    /\ script = s
    /\ args = a
    /\ run = 1
    /\ pc = Entry( s )
    /\ error = None
    /\ log = << >>
    /\ releases = rels
    /\ listing = << >>
    /\ i = 0
    /\ upload_url = NoUrl
    /\ dirs = { }
    /\ made = { }
    /\ cache = c
    /\ upstream = u
    /\ package_dir = NoValue
    /\ payload = { }
    /\ hashes = { }
    /\ p = 0
    /\ b = 0
    /\ bundles = NoBundles
    /\ previous = [ n \in { } |-> Sha256( << >> ) ]
    /\ posted = << >>
    /\ AuxIdle

(***************************************************************************)
(* package_llvm.py: UploadLlvm                                             *)
(***************************************************************************)

\* Variant: the release is created whatever the listing held.
CreateNeeded_Always( url ) == TRUE

\* Variant: the release is never created.
CreateNeeded_Never( url ) == FALSE

\* if not upload_url
CreateNeeded( url ) == url = NoUrl

\* Variant: the status of the delete response is not looked at.
DeleteSucceeded_Any( st ) == TRUE

\* The test of the delete response: if response.status_code != 204 -> exit
DeleteSucceeded( st ) == st = 204

\* requests.get( GITHUB_RELEASES_URL ... ) and the status test after it.
PL_GetReleases ==
  /\ script = "package_llvm"
  /\ pc = "UploadLlvm"
  /\ \E st \in { 200, 500 } :
       /\ log' = Append( log, Req( "list", NoValue, st ) )
       /\ IF st # 200
          THEN /\ error' = "Getting releases failed"
               /\ pc' = "exit"
               /\ UNCHANGED << listing, i, upload_url >>
          ELSE /\ listing' = releases
               /\ i' = 1
               /\ upload_url' = NoUrl
               /\ pc' = "releases"
               /\ UNCHANGED error
  /\ UNCHANGED << script, args, run, releases >>
  /\ UNCHANGED ucVars
  /\ UNCHANGED outVars
  /\ UNCHANGED auxVars

\* One iteration of `for release in response.json()`, the deletion of the
\* asset called as the bundle included.
PL_ForRelease ==
  /\ script = "package_llvm"
  /\ pc = "releases"
  /\ i <= Len( listing )
  /\ LET release == listing[ i ]
         k == FirstAsset( release.assets, BundleName( args ) )
     IN  IF release.tag_name # GetBundleVersion( args )
         THEN /\ i' = i + 1
              /\ UNCHANGED << upload_url, log, releases, error, pc >>
         ELSE IF k = 0
         THEN /\ upload_url' = i
              /\ i' = i + 1
              /\ UNCHANGED << log, releases, error, pc >>
         ELSE \E st \in DeleteStatuses( releases, i, k ) :
                /\ upload_url' = i
                /\ log' = Append( log, Req( "delete", BundleName( args ), st ) )
                /\ releases' = IF st = 204 THEN DeleteAsset( releases, i, k )
                                           ELSE releases
                /\ IF DeleteSucceeded( st )
                   THEN /\ i' = i + 1
                        /\ UNCHANGED << error, pc >>
                   ELSE /\ error' = "Creating release failed"
                        /\ pc' = "exit"
                        /\ UNCHANGED i
  /\ UNCHANGED << script, args, run, listing >>
  /\ UNCHANGED ucVars
  /\ UNCHANGED outVars
  /\ UNCHANGED auxVars

\* prerelease = args.release_candidate is not None
Prerelease( a ) == a.release_candidate # NoValue

\* name = 'LLVM and Clang ' + args.version, followed by ' RC<N>' when
\* args.release_candidate is true.
ReleaseName( a ) ==
  IF Truthy( a.release_candidate )
  THEN << "LLVM and Clang ", a.version, " RC", a.release_candidate[ 1 ] >>
  ELSE << "LLVM and Clang ", a.version >>

\* The json body of the request that creates the release.
ReleaseJson( a ) ==
  [ tag_name |-> GetBundleVersion( a ),
    name |-> ReleaseName( a ),
    prerelease |-> Prerelease( a ) ]

\* The block `if not upload_url: ...` after the loop: the release is
\* created when no listed release carried the tag.
PL_CreateRelease ==
  /\ script = "package_llvm"
  /\ pc = "releases"
  /\ i > Len( listing )
  /\ IF CreateNeeded( upload_url )
     THEN \E st \in { 201, 500 } :
            /\ log' = Append( log, Req( "create", GetBundleVersion( args ),
                                        st ) )
            /\ posted' = Append( posted, ReleaseJson( args ) )
            /\ IF st # 201
               THEN /\ error' = "Releasing failed"
                    /\ pc' = "exit"
                    /\ UNCHANGED << releases, upload_url >>
               ELSE /\ releases' = Append( releases,
                                           Release( GetBundleVersion( args ),
                                                    << >> ) )
                    /\ upload_url' = Len( releases ) + 1
                    /\ pc' = "upload"
                    /\ UNCHANGED error
     ELSE /\ pc' = "upload"
          /\ UNCHANGED << log, posted, releases, upload_url, error >>
  /\ UNCHANGED << script, args, run >>
  /\ UNCHANGED plVars
  /\ UNCHANGED ucVars
  /\ UNCHANGED << bundles, previous >>
  /\ UNCHANGED auxVars

\* upload_url.replace( ... ), requests.post( upload_url ... ) and the status
\* test after it.
PL_UploadAsset ==
  /\ script = "package_llvm"
  /\ pc = "upload"
  /\ IF upload_url = NoUrl
     THEN /\ error' = "AttributeError"
          /\ UNCHANGED << log, releases >>
     ELSE \E st \in UploadStatuses( releases, upload_url, BundleName( args ) ) :
            /\ log' = Append( log, Req( "upload", BundleName( args ), st ) )
            /\ releases' = IF st = 201
                           THEN AddAsset( releases, upload_url,
                                          BundleName( args ) )
                           ELSE releases
            /\ error' = IF st # 201 THEN "Uploading failed" ELSE None
  /\ pc' = "exit"
  /\ UNCHANGED << script, args, run, upload_url >>
  /\ UNCHANGED plVars
  /\ UNCHANGED ucVars
  /\ UNCHANGED outVars
  /\ UNCHANGED auxVars

\* The script is invoked again with the same arguments.
Rerun ==
  /\ pc = "exit"
  /\ run < MaxRuns
  /\ run' = run + 1
  /\ pc' = Entry( script )
  /\ error' = None
  /\ log' = << >>
  /\ listing' = << >>
  /\ i' = 0
  /\ upload_url' = NoUrl
  /\ made' = { }
  /\ package_dir' = NoValue
  /\ payload' = { }
  /\ hashes' = { }
  /\ p' = 0
  /\ b' = 0
  /\ bundles' = NoBundles
  /\ previous' = [ n \in hashes |-> Sha256( bundles[ n ] ) ]
  /\ posted' = << >>
  /\ UNCHANGED << script, args, releases, dirs, cache, upstream >>
  /\ UNCHANGED auxVars

(***************************************************************************)
(* upload_clang.py                                                         *)
(***************************************************************************)

\* The platform BundleAndUpload is working on.
OsName == Selected( args )[ p ]

\* temp_dir of Main and temp_dir of BundleAndUpload.
TempDir == << run >>
PlatformDir( os ) == << run, os >>

\* What the extract function returns: ExtractTar the archive's top-level
\* directory below the destination, Extract7Z the destination itself.
PackageDir( os ) ==
  IF LLVM_DOWNLOAD_DATA[ os ].format = "lzma"
  THEN << run, os, "root" >>
  ELSE PlatformDir( os )

\* Variant: every failed download is passed over like a 404.
IsNotFound_Always( st ) == TRUE

\* Variant: a 404 is raised again like every other status.
IsNotFound_Never( st ) == FALSE

\* except requests.exceptions.HTTPError: if status_code != 404: raise
IsNotFound( st ) == st = 404

\* Variant: the existence of a listed file is not tested.
Exists_Unchecked( ds, source_dir, files, name ) == TRUE

\* os.path.exists( os.path.join( source_dir, source_file_name ) )
Exists( ds, source_dir, files, name ) == source_dir \in ds /\ name \in files

\* Variant: the temporary directory is left behind in every case.
ExitDirs_Keep( ds, keep_temp, temp_dir ) == ds

\* The finally clause of TemporaryDirectory.
ExitDirs( ds, keep_temp, temp_dir ) ==
  IF keep_temp THEN ds ELSE Rmtree( ds, temp_dir )

\* An exception leaves BundleAndUpload and the with block of Main.
Raise( e ) ==
  /\ error' = e
  /\ pc' = "finally"

\* The extract function returned package directory pd.  The log entry
\* "extract" carries 0 for an extraction that returned, 1 for one that raised.
Extracted( os, pd ) ==
  /\ package_dir' = pd
  /\ dirs' = dirs \cup { pd }
  /\ made' = made \cup { pd }
  /\ payload' = upstream[ os ]
  /\ b' = 1
  /\ pc' = "MakeBundle"
  /\ log' = Append( log, Req( "extract", << os >>, 0 ) )
  /\ UNCHANGED error

\* The extract function raised e, having unpacked nothing or a part.
ExtractFailed( os, pd, e ) ==
  /\ \E part \in SUBSET { pd } :
       /\ dirs' = dirs \cup part
       /\ made' = made \cup part
  /\ Raise( e )
  /\ log' = Append( log, Req( "extract", << os >>, 1 ) )
  /\ UNCHANGED << package_dir, payload, b >>

\* Main up to the with statement: tempfile.mkdtemp() of TemporaryDirectory.
UC_Main ==
  /\ script = "upload_clang"
  /\ pc = "Main"
  /\ dirs' = dirs \cup { TempDir }
  /\ made' = made \cup { TempDir }
  /\ pc' = "license"
  /\ UNCHANGED << script, args, run, error, log, releases, upload_url >>
  /\ UNCHANGED plVars
  /\ UNCHANGED << cache, upstream, package_dir, payload, hashes, p, b >>
  /\ UNCHANGED outVars
  /\ UNCHANGED auxVars

DownloadClangLicense ==
  /\ script = "upload_clang"
  /\ pc = "license"
  /\ \E st \in { 200, 500 } :
       /\ log' = Append( log, Req( "license", NoValue, st ) )
       /\ IF st = 200
          THEN /\ p' = 1
               /\ pc' = "platforms"
               /\ UNCHANGED error
          ELSE /\ Raise( "HTTPError" )
               /\ UNCHANGED p
  /\ UNCHANGED << script, args, run, releases, upload_url >>
  /\ UNCHANGED plVars
  /\ UNCHANGED << dirs, made, cache, upstream, package_dir, payload, hashes,
                  b >>
  /\ UNCHANGED outVars
  /\ UNCHANGED auxVars

\* Head of Main's loop over the platforms; for a selected platform the
\* first lines of BundleAndUpload: os.makedirs( temp_dir ).
UC_NextPlatform ==
  /\ script = "upload_clang"
  /\ pc = "platforms"
  /\ IF p > Len( Selected( args ) )
     THEN /\ pc' = "finally"
          /\ UNCHANGED << dirs, made >>
     ELSE /\ dirs' = dirs \cup { PlatformDir( OsName ) }
          /\ made' = made \cup { PlatformDir( OsName ) }
          /\ pc' = "prepare"
  /\ package_dir' = NoValue
  /\ payload' = { }
  /\ UNCHANGED << script, args, run, error, log, releases, upload_url >>
  /\ UNCHANGED plVars
  /\ UNCHANGED << cache, upstream, hashes, p, b >>
  /\ UNCHANGED outVars
  /\ UNCHANGED auxVars

\* What extracting an archive can come to: a complete archive unpacks, or
\* the extraction fails with an I/O error (IOError) or with another error;
\* a truncated archive only fails.
ExtractOutcomes( content ) ==
  IF content = "complete" THEN { "ok", "IOError", "Error" }
                          ELSE { "IOError", "Error" }

\* except IOError: pass, around the open and the extraction of the cached
\* archive in PrepareBundleBuiltIn.
CaughtByCacheRead( e ) == e = "IOError"

\* PrepareBundleBuiltIn up to `if not package_dir`; PrepareBundleNSIS up to
\* `if not archive` and, for a cached archive, its Extract7Z.
UC_PrepareCached ==
  /\ script = "upload_clang"
  /\ pc = "prepare"
  /\ IF args.from_cache = None \/ cache[ OsName ] = "absent"
     THEN /\ pc' = "download"
          /\ UNCHANGED << error, log, dirs, made, package_dir, payload, b >>
     ELSE \E out \in ExtractOutcomes( cache[ OsName ] ) :
            IF out = "ok"
            THEN Extracted( OsName, PackageDir( OsName ) )
            ELSE IF /\ LLVM_DOWNLOAD_DATA[ OsName ].format = "lzma"
                    /\ CaughtByCacheRead( out )
            THEN /\ \E part \in SUBSET { PackageDir( OsName ) } :
                      /\ dirs' = dirs \cup part
                      /\ made' = made \cup part
                 /\ pc' = "download"
                 /\ log' = Append( log, Req( "extract", << OsName >>, 1 ) )
                 /\ UNCHANGED << error, package_dir, payload, b >>
            ELSE ExtractFailed( OsName, PackageDir( OsName ), out )
  /\ UNCHANGED << script, args, run, releases, upload_url >>
  /\ UNCHANGED plVars
  /\ UNCHANGED << cache, upstream, hashes, p >>
  /\ UNCHANGED outVars
  /\ UNCHANGED auxVars

\* Download( download_url ) and the except clause of BundleAndUpload.
UC_Download ==
  /\ script = "upload_clang"
  /\ pc = "download"
  /\ \E st \in { 200, 404, 500 } :
       /\ log' = Append( log, Req( "download", << OsName >>, st ) )
       /\ IF st = 200
          THEN /\ pc' = "store"
               /\ UNCHANGED << error, p >>
          ELSE IF IsNotFound( st )
          THEN /\ p' = p + 1
               /\ pc' = "platforms"
               /\ UNCHANGED error
          ELSE /\ Raise( "HTTPError" )
               /\ UNCHANGED p
  /\ UNCHANGED << script, args, run, releases, upload_url >>
  /\ UNCHANGED plVars
  /\ UNCHANGED << dirs, made, cache, upstream, package_dir, payload, hashes,
                  b >>
  /\ UNCHANGED outVars
  /\ UNCHANGED auxVars

\* A write of the downloaded bytes fails: the file is not created, or is
\* left with a part of the bytes.
FailedWrite( os ) ==
  \E left \in { cache[ os ], "truncated" } :
    cache' = [ cache EXCEPT ![ os ] = left ]

\* The rest of PrepareBundleBuiltIn / PrepareBundleNSIS after Download: the
\* bytes are written to the cache directory (NSIS: otherwise to temp_dir)
\* and extracted.
UC_StoreAndExtract ==
  /\ script = "upload_clang"
  /\ pc = "store"
  /\ \/ \* the write, if any, succeeds
        /\ cache' = IF args.from_cache # None
                    THEN [ cache EXCEPT ![ OsName ] = "complete" ]
                    ELSE cache
        /\ \E out \in ExtractOutcomes( "complete" ) :
             IF out = "ok"
             THEN Extracted( OsName, PackageDir( OsName ) )
             ELSE ExtractFailed( OsName, PackageDir( OsName ), out )
     \/ \* LZMA: the write to the cache fails; printing e.message raises
        /\ LLVM_DOWNLOAD_DATA[ OsName ].format = "lzma"
        /\ args.from_cache # None
        /\ FailedWrite( OsName )
        /\ Raise( "AttributeError" )
        /\ UNCHANGED << log, dirs, made, package_dir, payload, b >>
     \/ \* NSIS: the write to cache_dir or temp_dir fails
        /\ LLVM_DOWNLOAD_DATA[ OsName ].format = "nsis"
        /\ IF args.from_cache # None THEN FailedWrite( OsName )
                                      ELSE UNCHANGED cache
        /\ Raise( "IOError" )
        /\ UNCHANGED << log, dirs, made, package_dir, payload, b >>
  /\ UNCHANGED << script, args, run, releases, upload_url >>
  /\ UNCHANGED plVars
  /\ UNCHANGED << upstream, hashes, p >>
  /\ UNCHANGED outVars
  /\ UNCHANGED auxVars

\* Content of LICENSE.TXT as published for a version.
LicenseText( version ) == << "LICENSE.TXT", version >>

\* What tarfile stores for a member: the name it is archived under, the
\* bytes of the file and its modification time.
TarInfo( arcname, content, mtime ) ==
  [ arcname |-> arcname, content |-> content, mtime |-> mtime ]

\* Modification time of the license file: DownloadClangLicense writes it
\* anew in every invocation.  Extracted files carry the time the package
\* archive recorded for them.
LicenseTime == run
UpstreamTime == 0

\* Variant: a member is archived under the path it has on disk.
Arcname_OnDisk( source_dir, source_file_name ) ==
  source_dir \o source_file_name

\* tar_file.add( name = name, arcname = target_file_name )
Arcname( source_dir, source_file_name ) == source_file_name

\* The files_to_copy of Binaries[ b ] after version substitution, in order.
SourceFileNames ==
  [ k \in 1..Len( FilesToCopy( OsName, Binaries[ b ] ) ) |->
      FormatItem( FilesToCopy( OsName, Binaries[ b ] )[ k ], args.version ) ]

\* Number of files the loop of MakeBundle adds before it ends: all of
\* them, or those in front of the first one that does not exist.
Added ==
  IF \A k \in 1..Len( SourceFileNames ) :
       Exists( dirs, package_dir, payload, SourceFileNames[ k ] )
  THEN Len( SourceFileNames )
  ELSE ( CHOOSE k \in 1..Len( SourceFileNames ) :
           /\ ~Exists( dirs, package_dir, payload, SourceFileNames[ k ] )
           /\ \A j \in 1..( k - 1 ) :
                Exists( dirs, package_dir, payload, SourceFileNames[ j ] ) )
       - 1

\* The archive the with block of MakeBundle leaves on disk.
Written ==
  << TarInfo( << "LICENSE.TXT" >>, LicenseText( args.version ), LicenseTime ) >>
  \o [ k \in 1..Added |->
         TarInfo( Arcname( package_dir, SourceFileNames[ k ] ),
                  << OsName, SourceFileNames[ k ] >>, UpstreamTime ) ]

\* MakeBundle for Binaries[ b ]: every listed file has to exist below
\* source_dir, then the checksum of the archive is recorded.  The log entry
\* "bundle" carries 0 when the archive was completed, 1 when a file missed.
MakeBundle ==
  /\ script = "upload_clang"
  /\ pc = "MakeBundle"
  /\ bundles' = [ bundles EXCEPT
                    ![ ArchiveName( Binaries[ b ], args.version, OsName ) ] =
                      Written ]
  /\ IF \A f \in BundleFiles( OsName, Binaries[ b ], args.version ) :
          Exists( dirs, package_dir, payload, f )
     THEN /\ hashes' = hashes \cup
                       { ArchiveName( Binaries[ b ], args.version, OsName ) }
          /\ log' = Append( log, Req( "bundle",
                                      ArchiveName( Binaries[ b ], args.version,
                                                   OsName ), 0 ) )
          /\ pc' = "rmtree"
          /\ UNCHANGED error
     ELSE /\ Raise( "RuntimeError" )
          /\ log' = Append( log, Req( "bundle",
                                      ArchiveName( Binaries[ b ], args.version,
                                                   OsName ), 1 ) )
          /\ UNCHANGED hashes
  /\ UNCHANGED << script, args, run, releases, upload_url >>
  /\ UNCHANGED plVars
  /\ UNCHANGED << dirs, made, cache, upstream, package_dir, payload, p, b >>
  /\ UNCHANGED << previous, posted >>
  /\ UNCHANGED auxVars

\* End of the loop body of BundleAndUpload, and the step to the next binary
\* or the return to Main.
NextBinary ==
  IF b < Len( Binaries )
  THEN /\ b' = b + 1
       /\ pc' = "MakeBundle"
       /\ UNCHANGED p
  ELSE /\ p' = p + 1
       /\ pc' = "platforms"
       /\ UNCHANGED b

\* Variant: the bundle is never uploaded.
Uploads_Never( a ) == FALSE

\* if not args.no_upload: UploadBundleToGithub( ... )
Uploads( a ) == ~a.no_upload

\* if not args.keep_temp: shutil.rmtree( package_dir ), followed by the
\* test of args.no_upload.
UC_RemovePackageDir ==
  /\ script = "upload_clang"
  /\ pc = "rmtree"
  /\ IF args.keep_temp
     THEN UNCHANGED << dirs, payload >>
     ELSE /\ dirs' = Rmtree( dirs, package_dir )
          /\ payload' = { }
  /\ IF ~Uploads( args )
     THEN NextBinary
     ELSE /\ pc' = "UploadBundleToGithub"
          /\ UNCHANGED << p, b >>
  /\ UNCHANGED << script, args, run, error, log, releases, upload_url >>
  /\ UNCHANGED plVars
  /\ UNCHANGED << made, cache, upstream, package_dir, hashes >>
  /\ UNCHANGED outVars
  /\ UNCHANGED auxVars

\* UploadBundleToGithub up to the upload: the release listing, the search
\* for the release tagged with the version.
UC_GetReleases ==
  /\ script = "upload_clang"
  /\ pc = "UploadBundleToGithub"
  /\ \E st \in { 200, 500 } :
       /\ log' = Append( log, Req( "list", NoValue, st ) )
       /\ IF st # 200
          THEN /\ Raise( "Getting releases failed" )
               /\ UNCHANGED << listing, upload_url >>
          ELSE /\ listing' = releases
               /\ upload_url' = LastTagged( releases, << args.version >> )
               /\ IF LastTagged( releases, << args.version >> ) = NoUrl
                  THEN Raise( "Release not published yet" )
                  ELSE /\ pc' = "put"
                       /\ UNCHANGED error
  /\ UNCHANGED << script, args, run, releases, i >>
  /\ UNCHANGED ucVars
  /\ UNCHANGED outVars
  /\ UNCHANGED auxVars

\* requests.put( upload_url ... ) and request.raise_for_status().
UC_PutAsset ==
  /\ script = "upload_clang"
  /\ pc = "put"
  /\ LET name == ArchiveName( Binaries[ b ], args.version, OsName )
     IN  \E st \in UploadStatuses( releases, upload_url, name ) :
           /\ log' = Append( log, Req( "upload", name, st ) )
           /\ IF st = 201
              THEN /\ releases' = AddAsset( releases, upload_url, name )
                   /\ NextBinary
                   /\ UNCHANGED error
              ELSE /\ Raise( "HTTPError" )
                   /\ UNCHANGED << releases, p, b >>
  /\ UNCHANGED << script, args, run, upload_url >>
  /\ UNCHANGED plVars
  /\ UNCHANGED << dirs, made, cache, upstream, package_dir, payload, hashes >>
  /\ UNCHANGED outVars
  /\ UNCHANGED auxVars

\* Leaving the with block of Main, normally or by an exception: the finally
\* clause of TemporaryDirectory.
UC_Finally ==
  /\ script = "upload_clang"
  /\ pc = "finally"
  /\ dirs' = ExitDirs( dirs, args.keep_temp, TempDir )
  /\ pc' = "exit"
  /\ UNCHANGED << script, args, run, error, log, releases, upload_url >>
  /\ UNCHANGED plVars
  /\ UNCHANGED << made, cache, upstream, package_dir, payload, hashes, p, b >>
  /\ UNCHANGED outVars
  /\ UNCHANGED auxVars

Next ==
  \/ PL_GetReleases
  \/ PL_ForRelease
  \/ PL_CreateRelease
  \/ PL_UploadAsset
  \/ UC_Main
  \/ DownloadClangLicense
  \/ UC_NextPlatform
  \/ UC_PrepareCached
  \/ UC_Download
  \/ UC_StoreAndExtract
  \/ MakeBundle
  \/ UC_RemovePackageDir
  \/ UC_GetReleases
  \/ UC_PutAsset
  \/ UC_Finally
  \/ Rerun

Spec == Init /\ [][Next]_vars

TypeOK ==
  /\ script \in Scripts
  /\ run \in 1..MaxRuns
  /\ hashes \subseteq { ArchiveName( bin, args.version, os ) :
                          bin \in { "libclang", "clangd" }, os \in Platforms }

(***************************************************************************)
(* package_llvm.py: functions of Main modelled on their own                *)
(***************************************************************************)

\* Main of package_llvm has reached the call of function f; nothing of
\* UploadLlvm has happened yet.
MainAt( f ) ==
  /\ script = "package_llvm"
  /\ args = [ version |-> << "1", "0", ".", "0", ".", "0" >>,
              release_candidate |-> NoValue ]
  /\ run = 1
  /\ pc = f
  /\ error = None
  /\ log = << >>
  /\ releases = << >>
  /\ listing = << >>
  /\ i = 0
  /\ upload_url = NoUrl
  /\ dirs = { }
  /\ made = { }
  /\ cache = [ os \in Platforms |-> "absent" ]
  /\ upstream = [ os \in Platforms |-> { } ]
  /\ package_dir = NoValue
  /\ payload = { }
  /\ hashes = { }
  /\ p = 0
  /\ b = 0
  /\ bundles = NoBundles
  /\ previous = [ n \in { } |-> Sha256( << >> ) ]
  /\ posted = << >>

(***************************************************************************)
(* package_llvm.py: BundleLlvm                                             *)
(***************************************************************************)

\* x & y, x | y and x >> n on non-negative integers.
RECURSIVE BitAnd( _, _ )
BitAnd( x, y ) ==
  IF x = 0 \/ y = 0
  THEN 0
  ELSE ( x % 2 ) * ( y % 2 ) + 2 * BitAnd( x \div 2, y \div 2 )

RECURSIVE BitOr( _, _ )
BitOr( x, y ) ==
  IF x = 0 THEN y
  ELSE IF y = 0 THEN x
  ELSE ( IF x % 2 = 1 \/ y % 2 = 1 THEN 1 ELSE 0 )
       + 2 * BitOr( x \div 2, y \div 2 )

ShiftRight( x, n ) == x \div ( 2 ^ n )

\* The permission bits of a file: 0o000 to 0o777.
Modes == 0..( 2 ^ 9 - 1 )

\* 0o444, the three read bits.
ReadBits == 292

\* Files a build installs, by the characters of their names.
FileNames ==
  { << "c", "l", "a", "n", "g", "d" >>,
    << "a", ".", "s", "o" >>,
    << "a", ".", "s", "o", ".", "1", "0" >>,
    << "a", ".", "s", "o", ".", "1", "0", ".", "0" >>,
    << "a", ".", "s", "o", ".", "p", "y" >>,
    << "a", ".", "s", "o", "-", "1" >> }

Digits == { "0", "1", "2", "3", "4", "5", "6", "7", "8", "9" }

\* (.\d+)*$ : any number of groups of one character and one or more digits.
RECURSIVE MatchesGroups( _ )
MatchesGroups( s ) ==
  \/ s = << >>
  \/ \E n \in 2..Len( s ) :
       /\ \A j \in 2..n : s[ j ] \in Digits
       /\ MatchesGroups( SubSeq( s, n + 1, Len( s ) ) )

\* SHARED_LIBRARY_REGEX.match( filename ): '.*\.so(.\d+)*$'
SharedLibraryMatch( name ) ==
  \E k \in 1..( Len( name ) - 2 ) :
    /\ name[ k ] = "."
    /\ name[ k + 1 ] = "s"
    /\ name[ k + 2 ] = "o"
    /\ MatchesGroups( SubSeq( name, k + 3, Len( name ) ) )

\* Variant: the three execute bits are added when the user may read.
WithExecute_UserOnly( mode ) ==
  IF BitAnd( mode, 2 ^ 8 ) # 0 THEN BitOr( mode, 2 ^ 6 + 2 ^ 3 + 1 ) ELSE mode

\* mode |= ( mode & 0o444 ) >> 2
WithExecute( mode ) ==
  BitOr( mode, ShiftRight( BitAnd( mode, ReadBits ), 2 ) )

\* The walk of install_dir has come to a file of some name and mode.
InitBundleLlvm ==
  /\ MainAt( "BundleLlvm" )
  /\ filename \in FileNames
  /\ st_mode \in Modes
  /\ old_mode = st_mode
  /\ tar_file = << >>
  /\ bl = "match"
  /\ ClIdle
  /\ RtIdle
  /\ PrIdle

\* if SHARED_LIBRARY_REGEX.match( filename ): stat, mode update, chmod.
BL_Chmod ==
  /\ bl = "match"
  /\ st_mode' = IF SharedLibraryMatch( filename )
                THEN WithExecute( st_mode )
                ELSE st_mode
  /\ bl' = "add"
  /\ UNCHANGED << filename, old_mode, tar_file >>
  /\ UNCHANGED << mainVars, clVars, rtVars, prVars >>

\* tar_file.add( filepath, arcname = arcname )
BL_Add ==
  /\ bl = "add"
  /\ tar_file' = Append( tar_file, filename )
  /\ bl' = "done"
  /\ UNCHANGED << filename, st_mode, old_mode >>
  /\ UNCHANGED << mainVars, clVars, rtVars, prVars >>

NextBundleLlvm ==
  \/ BL_Chmod
  \/ BL_Add

SpecBundleLlvm == InitBundleLlvm /\ [][NextBundleLlvm]_vars

(***************************************************************************)
(* package_llvm.py: Version and CheckLlvm                                  *)
(***************************************************************************)

\* Longest list of versions one library is given.
MaxValues == 2

\* The components version texts are made of, and the texts: one to three
\* components joined by dots.
Components == { << "0" >>, << "2" >>, << "1", "7" >> }

RECURSIVE Join( _ )
Join( parts ) ==
  IF Len( parts ) = 1
  THEN parts[ 1 ]
  ELSE parts[ 1 ] \o << "." >> \o Join( Tail( parts ) )

VersionTexts ==
  { Join( parts ) : parts \in UNION { [ 1..n -> Components ] : n \in 1..3 } }

\* version.split( '.' )
RECURSIVE Split( _ )
Split( s ) ==
  IF \A k \in 1..Len( s ) : s[ k ] # "."
  THEN << s >>
  ELSE LET k == CHOOSE j \in 1..Len( s ) :
                  s[ j ] = "." /\ \A h \in 1..( j - 1 ) : s[ h ] # "."
       IN  << SubSeq( s, 1, k - 1 ) >> \o Split( SubSeq( s, k + 1, Len( s ) ) )

DigitValue( c ) ==
  CHOOSE d \in 0..9 :
    << "0", "1", "2", "3", "4", "5", "6", "7", "8", "9" >>[ d + 1 ] = c

\* int( text ) for a text of decimal digits.
RECURSIVE ToInt( _ )
ToInt( s ) ==
  IF Len( s ) = 1
  THEN DigitValue( s[ 1 ] )
  ELSE 10 * ToInt( SubSeq( s, 1, Len( s ) - 1 ) ) + DigitValue( s[ Len( s ) ] )

\* Version.__init__
Version( version ) ==
  LET split_version == Split( version )
  IN  [ major |-> ToInt( split_version[ 1 ] ),
        minor |-> IF Len( split_version ) > 1
                  THEN ToInt( split_version[ 2 ] ) ELSE 0,
        patch |-> IF Len( split_version ) > 2
                  THEN ToInt( split_version[ 3 ] ) ELSE 0 ]

\* s < t for two tuples of integers: the first position where they differ
\* decides, and a proper prefix is the smaller one.
RECURSIVE TupleLt( _, _ )
TupleLt( s, t ) ==
  IF s = << >> THEN t # << >>
  ELSE IF t = << >> THEN FALSE
  ELSE IF Head( s ) # Head( t ) THEN Head( s ) < Head( t )
  ELSE TupleLt( Tail( s ), Tail( t ) )

\* Version.__eq__
Eq( self, other ) ==
  << self.major, self.minor, self.patch >> =
  << other.major, other.minor, other.patch >>

\* Variant: only the major components are compared.
Lt_MajorOnly( self, other ) == self.major < other.major

\* Version.__lt__
Lt( self, other ) ==
  TupleLt( << self.major, self.minor, self.patch >>,
           << other.major, other.minor, other.patch >> )

\* What functools.total_ordering derives from __lt__ and __eq__.
Le( self, other ) == Lt( self, other ) \/ Eq( self, other )
Gt( self, other ) == ~Lt( self, other ) /\ ~Eq( self, other )
Ge( self, other ) == ~Lt( self, other )

\* max( values ): the first item is kept until a later one is greater.
RECURSIVE MaxFrom( _, _, _ )
MaxFrom( vs, k, maxitem ) ==
  IF k > Len( vs )
  THEN maxitem
  ELSE MaxFrom( vs, k + 1, IF Gt( vs[ k ], maxitem ) THEN vs[ k ] ELSE maxitem )

Max( vs ) == MaxFrom( vs, 2, vs[ 1 ] )

InitCheckLlvm ==
  /\ MainAt( "CheckLlvm" )
  /\ BlIdle
  /\ RtIdle
  /\ PrIdle
  /\ texts = << >>
  /\ values = << >>
  /\ maximum = << >>
  /\ cl = "CheckDependencies"

\* CheckDependencies: a line of the objdump output names a version of the
\* library.
CD_Append ==
  /\ cl = "CheckDependencies"
  /\ Len( values ) < MaxValues
  /\ \E version \in VersionTexts :
       /\ texts' = Append( texts, version )
       /\ values' = Append( values, Version( version ) )
  /\ UNCHANGED << maximum, cl >>
  /\ UNCHANGED << mainVars, blVars, rtVars, prVars >>

\* The loop of CheckLlvm over versions.items(), for the one library.
CL_Max ==
  /\ cl = "CheckDependencies"
  /\ values # << >>
  /\ maximum' = << Max( values ) >>
  /\ cl' = "done"
  /\ UNCHANGED << texts, values >>
  /\ UNCHANGED << mainVars, blVars, rtVars, prVars >>

NextCheckLlvm ==
  \/ CD_Append
  \/ CL_Max

SpecCheckLlvm == InitCheckLlvm /\ [][NextCheckLlvm]_vars

(***************************************************************************)
(* package_llvm.py: Retries                                                *)
(***************************************************************************)

\* Number of calls the behaviour of function is fixed for.
MaxCalls == 5

RETRY_INTERVAL == 10
max_retries == 3

\* A call of function returns, ends in sys.exit, or raises something else.
Outcomes == { "returns", "SystemExit", "Exception" }

\* Variant: the last retry is given up one call early.
Exceeded_AtMax( n ) == n >= max_retries

\* if nb_retries > max_retries
Exceeded( n ) == n > max_retries

InitRetries ==
  /\ MainAt( "Retries" )
  /\ BlIdle
  /\ ClIdle
  /\ PrIdle
  /\ outcomes \in [ 1..MaxCalls -> Outcomes ]
  /\ calls = << >>
  /\ nb_retries = 0
  /\ sleeps = << >>
  /\ slept = 0
  /\ result = None
  /\ rt = "try"

\* try: function( *args ) ... else: return True.  An exception that is no
\* SystemExit is not caught.
RT_Call ==
  /\ rt = "try"
  /\ Len( calls ) < MaxCalls
  /\ LET outcome == outcomes[ Len( calls ) + 1 ]
     IN  /\ calls' = Append( calls, outcome )
         /\ IF outcome = "returns"
            THEN result' = "True" /\ rt' = "returned"
            ELSE IF outcome = "SystemExit"
            THEN result' = result /\ rt' = "except"
            ELSE result' = outcome /\ rt' = "raised"
  /\ UNCHANGED << outcomes, nb_retries, sleeps, slept >>
  /\ UNCHANGED << mainVars, blVars, clVars, prVars >>

\* except SystemExit: count the retry and give up after max_retries.
RT_Except ==
  /\ rt = "except"
  /\ nb_retries' = nb_retries + 1
  /\ IF Exceeded( nb_retries + 1 )
     THEN result' = "Number of retries exceeded" /\ rt' = "raised"
     ELSE result' = result /\ rt' = "sleep"
  /\ UNCHANGED << outcomes, calls, sleeps, slept >>
  /\ UNCHANGED << mainVars, blVars, clVars, prVars >>

\* time.sleep( RETRY_INTERVAL ), then the loop starts over.
RT_Sleep ==
  /\ rt = "sleep"
  /\ sleeps' = Append( sleeps, Len( calls ) )
  /\ slept' = slept + RETRY_INTERVAL
  /\ rt' = "try"
  /\ UNCHANGED << outcomes, calls, nb_retries, result >>
  /\ UNCHANGED << mainVars, blVars, clVars, prVars >>

NextRetries ==
  \/ RT_Call
  \/ RT_Except
  \/ RT_Sleep

SpecRetries == InitRetries /\ [][NextRetries]_vars

(***************************************************************************)
(* package_llvm.py: Main up to BuildLlvm                                   *)
(***************************************************************************)

\* llvm_source, clang_source and clang_tools_source.
Sources == { "llvm", "clang", "clang-tools-extra" }

\* The sources that are moved into the llvm tree.
Moved == { "clang", "clang-tools-extra" }

\* A file or directory is not there, is there in part (its download or
\* extraction did not finish), or is there in full.
FileStates == { "absent", "partial", "complete" }

\* os.path.exists
PathExists( state ) == state # "absent"

\* What Main leaves untouched before BuildLlvm.
restVars == << script, args, releases, listing, i, upload_url, dirs, made,
               cache, upstream, package_dir, payload, hashes, p, b, bundles,
               previous, posted >>

\* The steps of Main before BuildLlvm.
PrepareSteps ==
  { "Main", "clang", "extra", "DownloadSource", "Download", "exists",
    "Extract", "rename", "move" }

\* The first invocation in a directory that holds the script only.
InitPrepare ==
  /\ MainAt( "Main" )
  /\ BlIdle
  /\ ClIdle
  /\ RtIdle
  /\ archive = [ s \in Sources |-> "absent" ]
  /\ source = [ s \in Sources |-> "absent" ]
  /\ renamed = [ s \in Moved |-> "absent" ]
  /\ tools = [ s \in Moved |-> "absent" ]
  /\ src = None
  /\ present = { }

\* An exception ends Main.
Abort( e ) ==
  /\ error' = e
  /\ pc' = "exit"

\* if not os.path.exists( <llvm_source> ): DownloadSource( llvm_url, ... )
PR_TestLlvm ==
  /\ pc = "Main"
  /\ IF PathExists( source[ "llvm" ] )
     THEN pc' = "clang" /\ UNCHANGED src
     ELSE pc' = "DownloadSource" /\ src' = "llvm"
  /\ UNCHANGED << run, error, log, archive, source, renamed, tools, present >>
  /\ UNCHANGED << restVars, blVars, clVars, rtVars >>

\* if not os.path.exists( <llvm_source>/tools/clang )
PR_TestClang ==
  /\ pc = "clang"
  /\ IF PathExists( tools[ "clang" ] )
     THEN pc' = "extra" /\ UNCHANGED src
     ELSE pc' = "DownloadSource" /\ src' = "clang"
  /\ UNCHANGED << run, error, log, archive, source, renamed, tools, present >>
  /\ UNCHANGED << restVars, blVars, clVars, rtVars >>

\* if not os.path.exists( <llvm_source>/tools/clang/tools/extra )
PR_TestExtra ==
  /\ pc = "extra"
  /\ IF PathExists( tools[ "clang-tools-extra" ] )
     THEN pc' = "BuildLlvm" /\ UNCHANGED src
     ELSE pc' = "DownloadSource" /\ src' = "clang-tools-extra"
  /\ UNCHANGED << run, error, log, archive, source, renamed, tools, present >>
  /\ UNCHANGED << restVars, blVars, clVars, rtVars >>

\* DownloadSource: if not os.path.exists( archive ): Download( ... ), as
\* far as the first chunk written to the file that Download opens.
PR_DownloadSource ==
  /\ pc = "DownloadSource"
  /\ IF PathExists( archive[ src ] )
     THEN /\ pc' = "exists"
          /\ UNCHANGED << error, log, archive >>
     ELSE \E st \in { 200, 500 } :
            /\ log' = Append( log, Req( "download", << src >>, st ) )
            /\ IF st = 200
               THEN /\ archive' = [ archive EXCEPT ![ src ] = "partial" ]
                    /\ pc' = "Download"
                    /\ UNCHANGED error
               ELSE /\ Abort( "HTTPError" )
                    /\ UNCHANGED archive
  /\ UNCHANGED << run, source, renamed, tools, src, present >>
  /\ UNCHANGED << restVars, blVars, clVars, rtVars >>

\* Download: the remaining chunks are written and the file is closed.
PR_Download ==
  /\ pc = "Download"
  /\ archive' = [ archive EXCEPT ![ src ] = "complete" ]
  /\ pc' = "exists"
  /\ UNCHANGED << run, error, log, source, renamed, tools, src, present >>
  /\ UNCHANGED << restVars, blVars, clVars, rtVars >>

\* The step after DownloadSource( url, s ).
After( s ) == IF s = "llvm" THEN "clang" ELSE "rename"

\* DownloadSource: if not os.path.exists( source ): Extract( archive ), as
\* far as the first member unpacked.  An archive that holds a part of its
\* bytes makes tarfile raise, before or after something was unpacked.
PR_TestSource ==
  /\ pc = "exists"
  /\ IF PathExists( source[ src ] )
     THEN /\ pc' = After( src )
          /\ UNCHANGED << error, source >>
     ELSE IF archive[ src ] = "complete"
     THEN /\ source' = [ source EXCEPT ![ src ] = "partial" ]
          /\ pc' = "Extract"
          /\ UNCHANGED error
     ELSE /\ \E left \in { "absent", "partial" } :
               source' = [ source EXCEPT ![ src ] = left ]
          /\ Abort( "ReadError" )
  /\ UNCHANGED << run, log, archive, renamed, tools, src, present >>
  /\ UNCHANGED << restVars, blVars, clVars, rtVars >>

\* Extract: the remaining members are unpacked.
PR_Extract ==
  /\ pc = "Extract"
  /\ source' = [ source EXCEPT ![ src ] = "complete" ]
  /\ pc' = After( src )
  /\ UNCHANGED << run, error, log, archive, renamed, tools, src, present >>
  /\ UNCHANGED << restVars, blVars, clVars, rtVars >>

\* os.rename( directory, target ) raises OSError when target is there and
\* is not an empty directory.
RenameFails( target ) == PathExists( target )

\* os.rename( clang_source, 'clang' ) / os.rename( clang_tools_source,
\* 'extra' )
PR_Rename ==
  /\ pc = "rename"
  /\ IF RenameFails( renamed[ src ] )
     THEN /\ Abort( "OSError" )
          /\ UNCHANGED << source, renamed >>
     ELSE /\ renamed' = [ renamed EXCEPT ![ src ] = source[ src ] ]
          /\ source' = [ source EXCEPT ![ src ] = "absent" ]
          /\ pc' = "move"
          /\ UNCHANGED error
  /\ UNCHANGED << run, log, archive, tools, src, present >>
  /\ UNCHANGED << restVars, blVars, clVars, rtVars >>

\* shutil.move( 'clang', <llvm_source>/tools ) / shutil.move( 'extra',
\* <llvm_source>/tools/clang/tools ): a rename into the directory.
PR_Move ==
  /\ pc = "move"
  /\ tools' = [ tools EXCEPT ![ src ] = renamed[ src ] ]
  /\ renamed' = [ renamed EXCEPT ![ src ] = "absent" ]
  /\ pc' = IF src = "clang" THEN "extra" ELSE "BuildLlvm"
  /\ UNCHANGED << run, error, log, archive, source, src, present >>
  /\ UNCHANGED << restVars, blVars, clVars, rtVars >>

\* The run is interrupted (a signal, a power cut) before BuildLlvm.
PR_Interrupt ==
  /\ pc \in PrepareSteps
  /\ Abort( "KeyboardInterrupt" )
  /\ UNCHANGED << run, log, archive, source, renamed, tools, src, present >>
  /\ UNCHANGED << restVars, blVars, clVars, rtVars >>

\* After an interrupted run the script is invoked again with the same
\* arguments, in the same directory.
PR_Rerun ==
  /\ pc = "exit"
  /\ error = "KeyboardInterrupt"
  /\ run < MaxRuns
  /\ run' = run + 1
  /\ pc' = "Main"
  /\ error' = None
  /\ log' = << >>
  /\ src' = None
  /\ present' = { s \in Sources : PathExists( archive[ s ] ) }
  /\ UNCHANGED << archive, source, renamed, tools >>
  /\ UNCHANGED << restVars, blVars, clVars, rtVars >>

NextPrepare ==
  \/ PR_TestLlvm
  \/ PR_TestClang
  \/ PR_TestExtra
  \/ PR_DownloadSource
  \/ PR_Download
  \/ PR_TestSource
  \/ PR_Extract
  \/ PR_Rename
  \/ PR_Move
  \/ PR_Interrupt
  \/ PR_Rerun

SpecPrepare == InitPrepare /\ [][NextPrepare]_vars

(***************************************************************************)
(* upload_clang.py: the versioned library of the libclang package          *)
(***************************************************************************)

\* Longest major version number, in digits.
MajorDigits == 3

\* Versions of the form major.minor.patch.
VersionDigits == { "1", "9" }

Majors == UNION { [ 1..n -> VersionDigits ] : n \in 1..MajorDigits }

VersionForms ==
  { major \o << ".", minor, ".", patch >> :
      major \in Majors, minor \in { "0", "1" }, patch \in { "0", "1" } }

\* The platforms whose libclang package lists the versioned library.
VersionedPlatforms ==
  { os \in Platforms :
      \E k \in 1..Len( LLVM_DOWNLOAD_DATA[ os ].libclang_package ) :
        LLVM_DOWNLOAD_DATA[ os ].libclang_package[ k ].spec = ".2" }

\* The files a published package holds: the listed ones, the versioned
\* library carrying the major version number.
Published( os, version ) ==
  UNION { { << FilesToCopy( os, bin )[ k ].path >> \o
              ( IF FilesToCopy( os, bin )[ k ].spec = ".2"
                THEN Split( version )[ 1 ] ELSE << >> ) :
              k \in 1..Len( FilesToCopy( os, bin ) ) } :
          bin \in { "libclang", "clangd" } }

\* upload_clang <version> --only <os> --no-upload, for a version of any
\* of the forms and a platform with a versioned library.
InitFormat ==
  \E version \in VersionForms : \E os \in VersionedPlatforms :
  \E keep \in BOOLEAN :
    /\ script = "upload_clang"
    /\ args = [ version |-> version,
                from_cache |-> None,
                no_upload |-> TRUE,
                keep_temp |-> keep,
                only |-> { os } ]
    /\ run = 1
    /\ pc = "Main"
    /\ error = None
    /\ log = << >>
    /\ releases = << Release( OtherTag, << >> ) >>
    /\ listing = << >>
    /\ i = 0
    /\ upload_url = NoUrl
    /\ dirs = { }
    /\ made = { }
    /\ cache = [ o \in Platforms |-> "absent" ]
    /\ upstream = [ o \in Platforms |-> Published( o, version ) ]
    /\ package_dir = NoValue
    /\ payload = { }
    /\ hashes = { }
    /\ p = 0
    /\ b = 0
    /\ bundles = [ n \in ArchiveNames( version ) |-> << >> ]
    /\ previous = [ n \in { } |-> Sha256( << >> ) ]
    /\ posted = << >>
    /\ AuxIdle

\* The steps of upload_clang when nothing is cached and nothing uploaded.
NextFormat ==
  \/ UC_Main
  \/ DownloadClangLicense
  \/ UC_NextPlatform
  \/ UC_PrepareCached
  \/ UC_Download
  \/ UC_StoreAndExtract
  \/ MakeBundle
  \/ UC_RemovePackageDir
  \/ UC_Finally

SpecFormat == InitFormat /\ [][NextFormat]_vars

(***************************************************************************)
(* Properties                                                              *)
(***************************************************************************)

\* C1: running upload_clang again for a version whose assets are already
\* attached replaces them: no upload request is rejected as a duplicate of
\* an attached asset, and a release never holds two assets of one name.
C1_RerunReplacesAsset ==
  script = "upload_clang" =>
    /\ \A k \in 1..Len( log ) : log[ k ].op = "upload" => log[ k ].st # 422
    /\ \A os \in Platforms : \A bin \in { "libclang", "clangd" } :
         AssetCount( releases, << args.version >>,
                     ArchiveName( bin, args.version, os ) ) <= 1

\* C2: UploadLlvm sends a create request only when the listing it fetched
\* in the same call holds no release tagged with the bundle version, so
\* that over all runs the registry holds at most one release of that tag.
C2_CreateOnlyWhenAbsent ==
  script = "package_llvm" =>
    /\ \A k \in 1..Len( log ) :
         log[ k ].op = "create" =>
           ReleaseCount( listing, GetBundleVersion( args ) ) = 0
    /\ ReleaseCount( releases, GetBundleVersion( args ) ) <= 1

\* C2 witness: a second run finds the release the first run created (the
\* first run's upload having failed) and uploads without creating.
C2_Witness ==
  /\ script = "package_llvm"
  /\ run = 2
  /\ pc = "exit"
  /\ releases = << Release( OtherTag, << BundleName( args ) >> ),
                   Release( GetBundleVersion( args ),
                            << BundleName( args ) >> ) >>
  /\ \A k \in 1..Len( log ) : log[ k ].op \notin { "create", "delete" }
  /\ \E k \in 1..Len( log ) : log[ k ].op = "upload" /\ log[ k ].st = 201

\* C3: in UploadLlvm, when the listed release of the tag holds an asset
\* called as the bundle, an upload request is sent only after a delete
\* request answered 204; after a delete answered otherwise the run has
\* ended in an error and no upload request was sent.
C3_DeleteBeforeUpload ==
  script = "package_llvm" =>
    /\ \A k \in 1..Len( log ) :
         ( /\ log[ k ].op = "upload"
           /\ \E r \in 1..Len( listing ) :
                /\ listing[ r ].tag_name = GetBundleVersion( args )
                /\ FirstAsset( listing[ r ].assets, BundleName( args ) ) # 0 )
         => \E j \in 1..( k - 1 ) :
              log[ j ].op = "delete" /\ log[ j ].st = 204
    /\ \A j \in 1..Len( log ) :
         ( log[ j ].op = "delete" /\ log[ j ].st # 204 )
         => /\ pc = "exit"
            /\ error # None
            /\ \A k \in 1..Len( log ) : log[ k ].op # "upload"

\* C3 witness: the asset of the earlier run was deleted, then uploaded anew.
C3_Witness ==
  /\ script = "package_llvm"
  /\ pc = "exit"
  /\ \E j, k \in 1..Len( log ) :
       /\ j < k
       /\ log[ j ].op = "delete" /\ log[ j ].st = 204
       /\ log[ k ].op = "upload" /\ log[ k ].st = 201

\* C4 as stated: whichever script publishes, a call that listed the
\* releases and found none of the tag has sent a create request and, when
\* that was answered 201, an upload request.
C4_EveryPublishCreates ==
  ( /\ pc = "exit"
    /\ \E k \in 1..Len( log ) : log[ k ].op = "list" /\ log[ k ].st = 200
    /\ ReleaseCount( listing,
                     IF script = "package_llvm" THEN GetBundleVersion( args )
                                                ELSE << args.version >> ) = 0 )
  => \E k \in 1..Len( log ) :
       /\ log[ k ].op = "create"
       /\ log[ k ].st = 201 => \E j \in ( k + 1 )..Len( log ) :
                                 log[ j ].op = "upload"

\* C4 amended: UploadLlvm, having listed no release of the tag, sends a
\* create request and, when it is answered 201, uploads to the release just
\* created; UploadBundleToGithub in that case sends nothing more and ends
\* with 'Release ... not published yet.'
C4_CreateOnlyInUploadLlvm ==
  ( /\ pc = "exit"
    /\ \E k \in 1..Len( log ) : log[ k ].op = "list" /\ log[ k ].st = 200 )
  => /\ ( /\ script = "package_llvm"
          /\ ReleaseCount( listing, GetBundleVersion( args ) ) = 0 )
        => \E k \in 1..Len( log ) :
             /\ log[ k ].op = "create"
             /\ log[ k ].st = 201 =>
                  /\ \E j \in ( k + 1 )..Len( log ) : log[ j ].op = "upload"
                  /\ upload_url > Len( listing )
                  /\ releases[ upload_url ].tag_name =
                       GetBundleVersion( args )
     /\ ( /\ script = "upload_clang"
          /\ ReleaseCount( listing, << args.version >> ) = 0 )
        => /\ error = "Release not published yet"
           /\ Last( log ).op = "list"
           /\ \A k \in 1..Len( log ) :
                log[ k ].op \notin { "create", "upload" }

\* C4 witness: UploadLlvm created the release and uploaded the asset to it.
C4_Witness ==
  /\ script = "package_llvm"
  /\ pc = "exit"
  /\ ReleaseCount( listing, GetBundleVersion( args ) ) = 0
  /\ \E k \in 1..Len( log ) : log[ k ].op = "create" /\ log[ k ].st = 201
  /\ Last( log ).op = "upload" /\ Last( log ).st = 201
  /\ HasAsset( releases, Len( releases ), BundleName( args ) )

\* C5: with --from-cache naming a directory that holds a readable file
\* called as the platform's package, Download is not called for that
\* platform, however the extraction of the cached file ends.
C5_CachedNeverDownloaded ==
  [][ ( /\ script = "upload_clang"
        /\ Len( log' ) = Len( log ) + 1
        /\ Last( log' ).op = "download" )
      => ( args.from_cache = None \/ cache[ OsName ] = "absent" ) ]_vars

\* C6: after a package download answered 404 nothing was bundled, recorded
\* or uploaded for that platform, and Main has moved on to the platforms
\* after it: a run that ends without error has begun every selected one.
C6_NotFoundSkipsPlatform ==
  script = "upload_clang" =>
    \A k \in 1..Len( log ) :
      ( log[ k ].op = "download" /\ log[ k ].st = 404 ) =>
        LET os == log[ k ].name[ 1 ]
        IN  /\ \A bin \in { "libclang", "clangd" } :
                 /\ ArchiveName( bin, args.version, os ) \notin hashes
                 /\ \A j \in 1..Len( log ) :
                      log[ j ].op = "upload" =>
                        log[ j ].name # ArchiveName( bin, args.version, os )
            /\ \E q \in 1..Len( Selected( args ) ) :
                 Selected( args )[ q ] = os /\ q < p
            /\ ( pc = "exit" /\ error = None ) =>
                 \A q \in 1..Len( Selected( args ) ) :
                   << run, Selected( args )[ q ] >> \in made

\* C6 witness: the first platform was answered 404 and the run ended
\* without error, having bundled the second one.
C6_Witness ==
  /\ script = "upload_clang"
  /\ pc = "exit"
  /\ error = None
  /\ hashes # { }
  /\ \E k \in 1..Len( log ) :
       /\ log[ k ].op = "download" /\ log[ k ].st = 404
       /\ log[ k ].name = << Selected( args )[ 1 ] >>

\* C7 as stated: when a run with uploads enabled ends because MakeBundle
\* missed a file that the package lacks, it has sent no upload request.
C7_NoUploadBeforeMissingFile ==
  ( /\ script = "upload_clang"
    /\ ~args.no_upload
    /\ error = "RuntimeError"
    /\ \E f \in BundleFiles( OsName, Binaries[ b ], args.version ) :
         f \notin upstream[ OsName ] )
  => \A k \in 1..Len( log ) : log[ k ].op # "upload"

\* C7 amended: when MakeBundle misses a file of the package it is bundling,
\* the run ends with RuntimeError, and no checksum is recorded and no upload
\* request is sent for the archive of that package; upload requests for
\* archives bundled earlier in the run may have been sent.
C7_MissingFileAborts ==
  [][ ( /\ script = "upload_clang"
        /\ pc = "MakeBundle"
        /\ \E f \in BundleFiles( OsName, Binaries[ b ], args.version ) :
             f \notin payload )
      => /\ error' = "RuntimeError"
         /\ pc' = "finally"
         /\ ArchiveName( Binaries[ b ], args.version, OsName ) \notin hashes'
         /\ \A k \in 1..Len( log' ) :
              log'[ k ].op = "upload" =>
                log'[ k ].name #
                  ArchiveName( Binaries[ b ], args.version, OsName ) ]_vars

\* C7 witness: a run with uploads enabled ended on a file the package
\* lacks, after the upload of an earlier archive.
C7_Witness ==
  /\ script = "upload_clang"
  /\ ~args.no_upload
  /\ pc = "exit"
  /\ error = "RuntimeError"
  /\ \E f \in BundleFiles( OsName, Binaries[ b ], args.version ) :
       f \notin upstream[ OsName ]
  /\ \E k \in 1..Len( log ) : log[ k ].op = "upload" /\ log[ k ].st = 201

\* C8: without --keep-temp, bundling fails on no platform whose extracted
\* package holds every listed file, and every such platform that
\* BundleAndUpload has finished has a checksum for both of its archives.
C8_BothBundlesBuilt ==
  ( script = "upload_clang" /\ ~args.keep_temp ) =>
    /\ error = "RuntimeError" =>
         upstream[ OsName ] # RequiredFiles( OsName, args.version )
    /\ \A q \in 1..Len( Selected( args ) ) :
         LET os == Selected( args )[ q ]
         IN  ( /\ q < p
               /\ upstream[ os ] = RequiredFiles( os, args.version )
               /\ \A k \in 1..Len( log ) :
                    ~( /\ log[ k ].op = "download"
                       /\ log[ k ].name = << os >>
                       /\ log[ k ].st = 404 ) )
             => \A bin \in { "libclang", "clangd" } :
                  ArchiveName( bin, args.version, os ) \in hashes

\* C9: a run of package_llvm ends on a failed release listing or release
\* creation only with 'Number of retries exceeded', after the request was
\* tried four times.
C9_UploadRetried ==
  ( /\ script = "package_llvm"
    /\ pc = "exit"
    /\ Len( log ) > 0
    /\ \/ Last( log ).op = "list" /\ Last( log ).st # 200
       \/ Last( log ).op = "create" /\ Last( log ).st # 201 )
  => /\ error = "Number of retries exceeded"
     /\ Cardinality( { k \in 1..Len( log ) : log[ k ].op = "list" } ) = 4

\* C10: when a run of upload_clang has ended, however it ended, none of the
\* temporary directories it created exists unless --keep-temp is set, and
\* with --keep-temp all of them exist.
C10_TempDirsAtExit ==
  ( script = "upload_clang" /\ pc = "exit" ) =>
    /\ << run >> \in made
    /\ IF args.keep_temp THEN made \subseteq dirs
                         ELSE made \cap dirs = { }

\* C10 witness: a run without --keep-temp ended by an exception after it
\* had created the directory of a platform and unpacked a package.
C10_Witness ==
  /\ script = "upload_clang"
  /\ pc = "exit"
  /\ error # None
  /\ ~args.keep_temp
  /\ Cardinality( made ) >= 3
  /\ made \cap dirs = { }

\* The platform a logged step works for: downloads and extractions are
\* logged under the platform, bundles and uploads under the archive name.
PlatformSteps == { "download", "extract", "bundle", "upload" }

PlatformOf( e ) ==
  IF e.op \in { "download", "extract" } THEN e.name[ 1 ] ELSE e.name[ 3 ]

\* C11: in a run of upload_clang the steps of one platform are not
\* interleaved with those of another; an archive is uploaded only after it
\* was bundled, and when uploads are enabled the bundle of a platform's next
\* package starts only after the upload of the one before succeeded.
C11_PlatformsInSequence ==
  script = "upload_clang" =>
    /\ \A j, k, l \in 1..Len( log ) :
         ( /\ j < k
           /\ k < l
           /\ log[ j ].op \in PlatformSteps
           /\ log[ k ].op \in PlatformSteps
           /\ log[ l ].op \in PlatformSteps
           /\ PlatformOf( log[ j ] ) = PlatformOf( log[ l ] ) )
         => PlatformOf( log[ k ] ) = PlatformOf( log[ j ] )
    /\ \A k \in 1..Len( log ) :
         log[ k ].op = "upload" =>
           \E j \in 1..( k - 1 ) :
             log[ j ] = Req( "bundle", log[ k ].name, 0 )
    /\ \A j, l \in 1..Len( log ) :
         ( /\ j < l
           /\ log[ j ].op = "bundle"
           /\ log[ l ].op = "bundle"
           /\ ~args.no_upload )
         => \E k \in ( j + 1 )..( l - 1 ) :
              log[ k ] = Req( "upload", log[ j ].name, 201 )

\* C11 witness: both packages of one platform were bundled and uploaded and
\* a step of a second platform follows them.
C11_Witness ==
  /\ script = "upload_clang"
  /\ \E j, k, l, m \in 1..Len( log ) :
       /\ j < k
       /\ k < l
       /\ l < m
       /\ log[ j ].op = "upload"
       /\ log[ j ].name[ 1 ] = "libclang"
       /\ log[ k ].op = "bundle"
       /\ log[ k ].name[ 1 ] = "clangd"
       /\ log[ l ].op = "upload"
       /\ log[ l ].name[ 1 ] = "clangd"
       /\ log[ m ].op \in PlatformSteps
       /\ PlatformOf( log[ m ] ) # PlatformOf( log[ l ] )

\* C12: a file under the name the cache is read by holds a package that
\* was downloaded and written completely; a write that fails midway leaves
\* no truncated file under that name.
C12_CacheHoldsCompleteDownloads ==
  script = "upload_clang" =>
    \A os \in Platforms : cache[ os ] \in { "absent", "complete" }

\* C17: a package download answered with an error status other than 404
\* is the last request of the run: the HTTPError leaves Main, the package
\* of that platform was requested once, and nothing is logged after it.
C17_DownloadErrorEndsRun ==
  script = "upload_clang" =>
    \A k \in 1..Len( log ) :
      ( log[ k ].op = "download" /\ log[ k ].st \notin { 200, 404 } ) =>
        /\ k = Len( log )
        /\ error = "HTTPError"
        /\ pc \in { "finally", "exit" }
        /\ Cardinality( { j \in 1..Len( log ) :
                            /\ log[ j ].op = "download"
                            /\ log[ j ].name = log[ k ].name } ) = 1

\* C17 witness: the run has ended on a failed download although a
\* selected platform was still to come.
C17_Witness ==
  /\ script = "upload_clang"
  /\ pc = "exit"
  /\ Len( log ) > 0
  /\ Last( log ).op = "download"
  /\ Last( log ).st = 500
  /\ p < Len( Selected( args ) )

\* C19: in PrepareBundleBuiltIn the step that stores the downloaded
\* package in the cache directory always goes on to extract the bytes,
\* whether the write succeeded or not, and raises nothing for the write.
C19_CacheWriteFailureReported ==
  [][ ( /\ script = "upload_clang"
        /\ pc = "store"
        /\ LLVM_DOWNLOAD_DATA[ OsName ].format = "lzma"
        /\ args.from_cache # None )
      => ( /\ Len( log' ) = Len( log ) + 1
           /\ Last( log' ).op = "extract"
           /\ error' # "AttributeError" ) ]_vars

\* C15: an archive that two successive runs with the same arguments both
\* completed, from a license and package files of the same content, has
\* the same SHA-256 digest in both runs.
C15_SameDigestAcrossRuns ==
  script = "upload_clang" =>
    \A n \in hashes \cap DOMAIN previous :
      Sha256( bundles[ n ] ) = previous[ n ]

\* C16: an archive whose checksum was recorded holds LICENSE.TXT followed
\* by one member per element of files_to_copy, in list order, each named by
\* the element's relative path after version substitution; an archive that
\* lacked a listed file has no checksum recorded.
C16_ArchiveEntries ==
  script = "upload_clang" =>
    /\ \A n \in hashes :
         LET files == FilesToCopy( n[ 3 ], n[ 1 ] )
         IN  /\ Len( bundles[ n ] ) = 1 + Len( files )
             /\ bundles[ n ][ 1 ].arcname = << "LICENSE.TXT" >>
             /\ \A k \in 1..Len( files ) :
                  bundles[ n ][ k + 1 ].arcname =
                    FormatItem( files[ k ], args.version )
    /\ \A k \in 1..Len( log ) :
         ( log[ k ].op = "bundle" /\ log[ k ].st = 1 ) =>
           log[ k ].name \notin hashes

\* C16 witness: one archive of the run was completed and the next one
\* lacked a file.
C16_Witness ==
  /\ script = "upload_clang"
  /\ hashes # { }
  /\ \E k \in 1..Len( log ) : log[ k ].op = "bundle" /\ log[ k ].st = 1

\* C13: a shared-library file that is not readable for its user keeps the
\* mode it had, and BundleLlvm changes an execute bit of a shared-library
\* file only when the file's user-read bit is set.
C13_ExecuteOnlyIfUserReadable ==
  ( bl \in { "add", "done" } /\ SharedLibraryMatch( filename ) ) =>
    ( BitAnd( old_mode, 2 ^ 8 ) = 0 => st_mode = old_mode )

\* The n-th component of a version text as a number, 0 when the text has
\* fewer components.
ComponentOf( text, n ) ==
  IF n <= Len( Split( text ) ) THEN ToInt( Split( text )[ n ] ) ELSE 0

\* Lexicographic order on ( major, minor, patch ).
LexLess( s, t ) ==
  \/ ComponentOf( s, 1 ) < ComponentOf( t, 1 )
  \/ /\ ComponentOf( s, 1 ) = ComponentOf( t, 1 )
     /\ \/ ComponentOf( s, 2 ) < ComponentOf( t, 2 )
        \/ /\ ComponentOf( s, 2 ) = ComponentOf( t, 2 )
           /\ ComponentOf( s, 3 ) < ComponentOf( t, 3 )

LexSame( s, t ) == \A n \in 1..3 : ComponentOf( s, n ) = ComponentOf( t, n )

\* C14: the comparisons of two Version objects agree with the
\* lexicographic order of their ( major, minor, patch ) triples, absent
\* components read as 0, exactly one of <, == and > holds for every pair,
\* and max() returns an element of the list that no element exceeds.
C14_VersionOrder ==
  /\ \A j, k \in 1..Len( values ) :
       /\ Eq( values[ j ], values[ k ] ) <=> LexSame( texts[ j ], texts[ k ] )
       /\ Lt( values[ j ], values[ k ] ) <=> LexLess( texts[ j ], texts[ k ] )
       /\ Le( values[ j ], values[ k ] ) <=> ~LexLess( texts[ k ], texts[ j ] )
       /\ Gt( values[ j ], values[ k ] ) <=> LexLess( texts[ k ], texts[ j ] )
       /\ Ge( values[ j ], values[ k ] ) <=> ~LexLess( texts[ j ], texts[ k ] )
       /\ Cardinality( { r \in { "lt", "eq", "gt" } :
                           \/ r = "lt" /\ Lt( values[ j ], values[ k ] )
                           \/ r = "eq" /\ Eq( values[ j ], values[ k ] )
                           \/ r = "gt" /\ Gt( values[ j ], values[ k ] ) } ) = 1
  /\ cl = "done" =>
       \E k \in 1..Len( values ) :
         /\ maximum = << values[ k ] >>
         /\ \A j \in 1..Len( values ) : ~LexLess( texts[ k ], texts[ j ] )

\* C14 witness: the maximum was taken of a list whose second version is
\* greater although its text has fewer components and sorts lower as text.
C14_Witness ==
  /\ cl = "done"
  /\ Len( values ) = 2
  /\ texts[ 1 ] = << "2", ".", "0", ".", "2" >>
  /\ texts[ 2 ] = << "1", "7" >>
  /\ maximum = << values[ 2 ] >>

\* The calls made so far all ended in SystemExit.
AllExited( n ) == \A k \in 1..n : calls[ k ] = "SystemExit"

\* C18 as stated: Retries returns True right after the first call that
\* raises no SystemExit.
C18_TrueAfterFirstNonExit ==
  ( calls # << >> /\ Last( calls ) # "SystemExit" ) =>
    ( rt = "returned" /\ result = "True" )

\* C18: Retries calls function at most max_retries + 1 = 4 times and only
\* after failures, sleeps RETRY_INTERVAL once after each of the first three
\* calls that ended in SystemExit and at no other time, returns True right
\* after the first call that returns, lets any other exception of function
\* out at once, and raises 'Number of retries exceeded' exactly when four
\* calls in a row ended in SystemExit.
C18_RetriesBounded ==
  /\ Len( calls ) <= max_retries + 1
  /\ AllExited( Len( calls ) - 1 )
  /\ Len( sleeps ) <= max_retries
  /\ slept = RETRY_INTERVAL * Len( sleeps )
  /\ \A k \in 1..Len( sleeps ) :
       sleeps[ k ] = k /\ k <= Len( calls ) /\ calls[ k ] = "SystemExit"
  /\ \A k \in 1..Len( calls ) :
       ( k <= max_retries /\ calls[ k ] = "SystemExit" /\
         ( k < Len( calls ) \/ rt = "try" ) ) => Len( sleeps ) >= k
  /\ ( calls # << >> /\ Last( calls ) = "returns" ) =>
       ( rt = "returned" /\ result = "True" /\ Len( sleeps ) = Len( calls ) - 1 )
  /\ ( calls # << >> /\ Last( calls ) = "Exception" ) =>
       ( rt = "raised" /\ result = "Exception"
         /\ Len( sleeps ) = Len( calls ) - 1 )
  /\ result = "Number of retries exceeded" <=>
       ( /\ Len( calls ) = max_retries + 1
         /\ AllExited( Len( calls ) )
         /\ rt = "raised" )
  /\ ( Len( calls ) = max_retries + 1 /\ AllExited( Len( calls ) ) ) =>
       rt \in { "except", "raised" }

\* C18 witness: the fourth call in a row ended in SystemExit and Retries
\* gave up, having slept three times.
C18_Witness ==
  /\ rt = "raised"
  /\ result = "Number of retries exceeded"
  /\ Len( calls ) = 4
  /\ Len( sleeps ) = 3

\* C20: a run of package_llvm that follows an interrupted one ends before
\* BuildLlvm only when it is interrupted itself or a download fails, it
\* reaches BuildLlvm with the three sources unpacked in full and in place,
\* and it downloads no archive whose file it found.
C20_PreparationResumes ==
  ( script = "package_llvm" /\ run > 1 ) =>
    /\ pc = "exit" => error \in { "KeyboardInterrupt", "HTTPError" }
    /\ pc = "BuildLlvm" =>
         /\ source[ "llvm" ] = "complete"
         /\ \A s \in Moved : tools[ s ] = "complete"
    /\ \A k \in 1..Len( log ) :
         log[ k ].op = "download" => log[ k ].name[ 1 ] \notin present

\* C21: a release that UploadLlvm asks to create is flagged prerelease
\* exactly when its tag_name and its name carry the release-candidate
\* suffix; no release is created as a prerelease under the plain version.
C21_PrereleaseIffSuffix ==
  script = "package_llvm" =>
    \A k \in 1..Len( posted ) :
      /\ posted[ k ].prerelease <=>
           ( /\ Len( posted[ k ].tag_name ) = 3
             /\ posted[ k ].tag_name[ 2 ] = "-rc"
             /\ Len( posted[ k ].name ) = 4
             /\ posted[ k ].name[ 3 ] = " RC" )
      /\ posted[ k ].prerelease => posted[ k ].tag_name # << args.version >>

\* C22: on a platform whose libclang package lists the versioned library,
\* the second path MakeBundle looked up for that package is
\* lib/libclang.so.<major>, whatever the number of digits of the major
\* version.
C22_VersionedLibraryIsMajor ==
  ( /\ script = "upload_clang"
    /\ pc \in { "rmtree", "finally" }
    /\ log # << >>
    /\ Last( log ).op = "bundle"
    /\ Last( log ).name[ 1 ] = "libclang"
    /\ OsName \in VersionedPlatforms )
  => SourceFileNames[ 2 ] =
       << "lib/libclang.so." >> \o Split( args.version )[ 1 ]

\* Bit k of a mode: bits 0, 1 and 2 are the execute, write and read bit of
\* the class other, bits 3 to 5 those of group, bits 6 to 8 those of user.
BitOf( mode, k ) == ( mode \div ( 2 ^ k ) ) % 2

====
